---------------------------- MODULE Spec2Model ----------------------------
(***************************************************************************)
(* State-machine model of chatgpt-stream-cli.js: the code-fence formatter  *)
(* (CodeBlockFormatter), one streamed request (streamChatOnce), the retry  *)
(* loop (askGPTStreamWithRetry), the readline listeners ('line', 'SIGINT',  *)
(* 'close') and the end of the process.                                    *)
(*                                                                         *)
(* Text is a sequence of characters, each a string.  Wire text (the response   *)
(* stream) is a sequence of wire symbols, see the section on the stream.   *)
(***************************************************************************)
EXTENDS Integers, Sequences, FiniteSets, TLC

VARIABLES
    messages,   \* the global messages array (line 82)
    autosave,   \* CONFIG.autosave (line 20, /set autosave)
    hs,         \* the async listeners started so far, by number of their event
    nlines,     \* number of events ('line', 'SIGINT', 'close') readline emitted
    ft,         \* a CodeBlockFormatter fed delta by delta, with the deltas to feed
    sysPrompt,  \* CONFIG.systemPrompt (line 18, /set systemPrompt)
    sessions,   \* the message lists of the session files written so far
    proc        \* the process: "running", "closed" (readline closed, process
                \* alive), "exited" (process.exit(0)) or "crashed" (ended by
                \* a promise rejection no one handles)

vars == <<messages, autosave, hs, nlines, ft, sysPrompt, sessions, proc>>

(***************************************************************************)
(* Bounds of the model.                                                    *)
(***************************************************************************)
MaxFmtLen == 5      \* longest message text fed to the formatter alone
MaxLines == 2       \* readline events per run
MaxChunks == 2      \* chunks of one response stream
MaxWireLines == 3   \* lines of a response stream drawn line by line

(***************************************************************************)
(* Program constants.                                                      *)
(***************************************************************************)
MAX_RETRIES == 3
BASE_DELAY_MS == 2000

(***************************************************************************)
(* Text helpers.                                                           *)
(***************************************************************************)
\* the backtick character (a string of the module cannot hold one)
BT == "bt"
NL == "\n"
SP == " "

\* String.prototype.trim removes white space at both ends.
WhiteSpace == {SP, NL, "\t", "\r"}

RECURSIVE TrimStart(_)
TrimStart(s) ==
    IF s # <<>> /\ Head(s) \in WhiteSpace THEN TrimStart(Tail(s)) ELSE s

RECURSIVE TrimEnd(_)
TrimEnd(s) ==
    IF s # <<>> /\ s[Len(s)] \in WhiteSpace
    THEN TrimEnd(SubSeq(s, 1, Len(s) - 1))
    ELSE s

trim(s) == TrimEnd(TrimStart(s))

RECURSIVE Concat(_)
Concat(ss) == IF ss = <<>> THEN <<>> ELSE Head(ss) \o Concat(Tail(ss))

(***************************************************************************)
(* CodeBlockFormatter (lines 168-206).                                     *)
(*                                                                         *)
(* Output is a sequence of items: a character in prose style (chalk.cyan), *)
(* a character in code style (chalk.reset), the enter banner with its      *)
(* language tag, or the exit banner.                                       *)
(***************************************************************************)
NewFormatter == [inCode |-> FALSE, pending |-> <<>>, currentLang |-> <<>>]

Styled(inCode, ch) == [k |-> IF inCode THEN "code" ELSE "prose", t |-> <<ch>>]
EnterBanner(lang) == [k |-> "enter", t |-> lang]
ExitBanner == [k |-> "exit", t |-> <<>>]

\* pending.startsWith(fence marker, i), with i counted from 1
StartsWithFence(buf, i) ==
    /\ i + 2 <= Len(buf)
    /\ buf[i] = BT /\ buf[i + 1] = BT /\ buf[i + 2] = BT

\* the inner loop of line 185: the first j >= i with buf[j] a newline, or Len+1
RECURSIVE LangEnd(_, _)
LangEnd(buf, j) ==
    IF j <= Len(buf) /\ buf[j] # NL THEN LangEnd(buf, j + 1) ELSE j

\* the while loop of lines 178-202, from position i on
RECURSIVE Scan(_, _, _, _, _)
Scan(buf, i, inCode, lang, out) ==
    IF i > Len(buf)
    THEN [out |-> out, inCode |-> inCode, currentLang |-> lang]
    ELSE IF StartsWithFence(buf, i)
    THEN IF ~inCode
         THEN LET j == LangEnd(buf, i + 3)
                  newLang == trim(SubSeq(buf, i + 3, j - 1))
                  nxt == IF j <= Len(buf) /\ buf[j] = NL THEN j + 1 ELSE j
              IN  Scan(buf, nxt, TRUE, newLang, Append(out, EnterBanner(newLang)))
         ELSE Scan(buf, i + 3, FALSE, <<>>, Append(out, ExitBanner))
    ELSE Scan(buf, i + 1, inCode, lang, Append(out, Styled(inCode, buf[i])))

\* what formatToken leaves in this.pending (line 203)
PendingAfter(buf) == <<>>

\* formatToken(token) on formatter state f: the output and the new state
formatToken(f, token) ==
    LET buf == f.pending \o token
        r == Scan(buf, 1, f.inCode, f.currentLang, <<>>)
    IN  [out |-> r.out,
         f |-> [inCode |-> r.inCode, pending |-> PendingAfter(buf),
                currentLang |-> r.currentLang]]

\* removing the styling codes: a styled character is the character, a banner
\* is its text (which shows the language tag)
StripItem(it) == IF it.k \in {"prose", "code"} THEN [k |-> "char", t |-> it.t] ELSE it
Strip(out) == [n \in 1..Len(out) |-> StripItem(out[n])]

\* the scan position at which the rest of the buffer is one or two backticks:
\* the rest of the buffer there (<<>> when the scan meets no such position)
RECURSIVE ScanRest(_, _, _)
ScanRest(buf, i, inCode) ==
    IF i > Len(buf) THEN <<>>
    ELSE IF StartsWithFence(buf, i)
    THEN IF ~inCode
         THEN LET j == LangEnd(buf, i + 3)
              IN  ScanRest(buf, IF j <= Len(buf) THEN j + 1 ELSE j, TRUE)
         ELSE ScanRest(buf, i + 3, FALSE)
    ELSE IF \A n \in i..Len(buf) : buf[n] = BT
    THEN SubSeq(buf, i, Len(buf))
    ELSE ScanRest(buf, i + 1, inCode)

(***************************************************************************)
(* The formatter alone: a fresh formatter and a message text cut into      *)
(* non-empty deltas, fed one formatToken call at a time.                   *)
(***************************************************************************)
FmtAlphabet == {BT, "a", NL}

Texts(n) == UNION {[1..m -> FmtAlphabet] : m \in 0..n}

\* every way of cutting text into non-empty deltas
RECURSIVE Splits(_)
Splits(text) ==
    IF text = <<>> THEN {<<>>}
    ELSE UNION {{<<SubSeq(text, 1, k)>> \o s :
                    s \in Splits(SubSeq(text, k + 1, Len(text)))} :
                k \in 1..Len(text)}

\* the deltas of the worked example of the specification
ExampleDeltas ==
    << <<"H", "e", "r", "e", ":", NL, BT, BT, BT, "p", "y">>,
       <<"t", "h", "o", "n", NL, "p", "r", "i", "n", "t", "(", "1", ")", NL, BT, BT, BT>>,
       <<NL, "d", "o", "n", "e">> >>

FtStart(deltas) ==
    [todo |-> deltas, whole |-> Concat(deltas), f |-> NewFormatter,
     out |-> <<>>, calls |-> 0, rest |-> <<>>, last |-> <<>>]

FtIdle == FtStart(<<>>)

\* one formatToken call with the next delta
FeedDelta ==
    /\ ft.todo # <<>>
    /\ LET token == Head(ft.todo)
           r == formatToken(ft.f, token)
       IN  ft' = [ft EXCEPT !.todo = Tail(@), !.f = r.f,
                            !.out = @ \o r.out, !.calls = @ + 1,
                            !.rest = ScanRest(ft.f.pending \o token, 1, ft.f.inCode),
                            !.last = r.out]
    /\ UNCHANGED <<messages, autosave, sysPrompt, sessions, hs, nlines, proc>>

(***************************************************************************)
(* The response stream (lines 229-263).                                    *)
(*                                                                         *)
(* Wire symbols: NL, SP and "\r" are themselves; "data:" is the five       *)
(* characters of the frame marker before its space; "[DONE]" is the        *)
(* sentinel payload; "{" is the JSON text of a chunk up to the opening     *)
(* quote of choices[0].delta.content and "}" the text from its closing     *)
(* quote on; "{}" is a JSON record without content delta; "\\n" is the     *)
(* JSON escape of a newline; any other symbol is that character.           *)
(***************************************************************************)
DATA == "data:"
DONE == "[DONE]"
JOpen == "{"
JClose == "}"
JEmpty == "{}"
JEscNL == "\\n"

\* characters a JSON string may hold as they are, and the escape
JStringChars == {"a", "x", BT, SP, JEscNL}

\* buffer.split('\n'): the pieces between the newlines, at least one
RECURSIVE split(_, _)
split(s, cur) ==
    IF s = <<>> THEN <<cur>>
    ELSE IF Head(s) = NL THEN <<cur>> \o split(Tail(s), <<>>)
    ELSE split(Tail(s), Append(cur, Head(s)))

\* the content string a JSON string body decodes to
RECURSIVE JDecode(_)
JDecode(s) ==
    IF s = <<>> THEN <<>>
    ELSE <<IF Head(s) = JEscNL THEN NL ELSE Head(s)>> \o JDecode(Tail(s))

\* lines 252-254: JSON.parse(jsonStr) and data.choices?.[0]?.delta?.content || '';
\* ok is FALSE when JSON.parse throws
ParseToken(jsonStr) ==
    LET p == trim(jsonStr)
    IN  IF p = <<JEmpty>> THEN [ok |-> TRUE, token |-> <<>>]
        ELSE IF /\ Len(p) >= 2
                /\ p[1] = JOpen
                /\ p[Len(p)] = JClose
                /\ \A n \in 2..(Len(p) - 1) : p[n] \in JStringChars
        THEN [ok |-> TRUE, token |-> JDecode(SubSeq(p, 2, Len(p) - 1))]
        ELSE [ok |-> FALSE, token |-> <<>>]

\* line 244
IsDoneLine(line) == line = <<DATA, SP, DONE>>

\* line 250: line.startsWith('data: ')
IsDataLine(line) == Len(line) >= 2 /\ line[1] = DATA /\ line[2] = SP

\* mutant of Frame: a data line whose payload is no JSON ends the stream
Frame_strict(raw) ==
    LET line == trim(raw)
    IN  IF line = <<>> THEN [k |-> "ignored", token |-> <<>>]
        ELSE IF IsDoneLine(line) THEN [k |-> "terminator", token |-> <<>>]
        ELSE IF IsDataLine(line)
        THEN LET d == ParseToken(SubSeq(line, 3, Len(line)))
             IN  IF d.ok /\ d.token # <<>>
                 THEN [k |-> "delta", token |-> d.token]
                 ELSE IF d.ok THEN [k |-> "ignored", token |-> <<>>]
                 ELSE [k |-> "terminator", token |-> <<>>]
        ELSE [k |-> "ignored", token |-> <<>>]

\* the frame of one raw line (lines 242-261)
Frame(raw) ==
    LET line == trim(raw)
    IN  IF line = <<>> THEN [k |-> "ignored", token |-> <<>>]
        ELSE IF IsDoneLine(line) THEN [k |-> "terminator", token |-> <<>>]
        ELSE IF IsDataLine(line)
        THEN LET d == ParseToken(SubSeq(line, 3, Len(line)))
             IN  IF d.ok /\ d.token # <<>>
                 THEN [k |-> "delta", token |-> d.token]
                 ELSE [k |-> "ignored", token |-> <<>>]
        ELSE [k |-> "ignored", token |-> <<>>]

\* mutant of ProcessLines: the loop goes on after the terminator
RECURSIVE ProcessLines_pastDone(_, _, _, _)
ProcessLines_pastDone(lines, reply, f, out) ==
    IF lines = <<>> THEN [reply |-> reply, f |-> f, out |-> out, term |-> FALSE]
    ELSE LET fr == Frame(Head(lines))
         IN  IF fr.k = "terminator"
             THEN [ProcessLines_pastDone(Tail(lines), reply, f, out) EXCEPT !.term = TRUE]
             ELSE IF fr.k = "delta"
             THEN LET r == formatToken(f, fr.token)
                  IN  ProcessLines_pastDone(Tail(lines), reply \o fr.token, r.f, out \o r.out)
             ELSE ProcessLines_pastDone(Tail(lines), reply, f, out)

\* the for loop of lines 241-262 over the complete lines of one chunk;
\* term is TRUE when the loop left at the terminator (line 248)
RECURSIVE ProcessLines(_, _, _, _)
ProcessLines(lines, reply, f, out) ==
    IF lines = <<>> THEN [reply |-> reply, f |-> f, out |-> out, term |-> FALSE]
    ELSE LET fr == Frame(Head(lines))
         IN  IF fr.k = "terminator"
             THEN [reply |-> reply, f |-> f, out |-> out, term |-> TRUE]
             ELSE IF fr.k = "delta"
             THEN LET r == formatToken(f, fr.token)
                  IN  ProcessLines(Tail(lines), reply \o fr.token, r.f, out \o r.out)
             ELSE ProcessLines(Tail(lines), reply, f, out)

\* the frames the loop of lines 241-262 reads from the lines it is given, the
\* ignored lines with them, up to the terminator where it leaves
RECURSIVE FramesRead(_)
FramesRead(lines) ==
    IF lines = <<>> THEN <<>>
    ELSE LET fr == Frame(Head(lines))
         IN  IF fr.k = "terminator" THEN <<fr>>
             ELSE <<fr>> \o FramesRead(Tail(lines))

\* mutant of PopLast: the incomplete last piece is not kept
PopLast_dropped(lines) == <<>>

\* line 239: buffer = lines.pop()
PopLast(lines) == lines[Len(lines)]

Raw(t) == [k |-> "raw", t |-> t]
GptLabel == Raw(<<"G", "P", "T", ">", SP>>)
BlankLine == Raw(<<NL, NL>>)

(***************************************************************************)
(* Messages and handlers.                                                  *)
(***************************************************************************)
\* id tells the objects apart: the number of the 'line' event that pushed the
\* message, 0 for the system message
Msg(role, content, id) == [role |-> role, content |-> content, id |-> id]

\* the systemPrompt of defaultConfig() (line 18)
DefaultPromptText == <<"S">>

\* defaultSystemPrompt() (lines 79-81)
defaultSystemPrompt == <<Msg("system", sysPrompt, 0)>>

\* { ...messages.find(m => m.role === 'system') } (line 353)
ClearedMessages(msgs) ==
    LET idx == {n \in 1..Len(msgs) : msgs[n].role = "system"}
    IN  IF idx = {} THEN <<Msg("none", <<>>, 0)>>
        ELSE <<msgs[CHOOSE n \in idx : \A m \in idx : n <= m]>>

\* mutant of SetSystemContent: the new prompt is always put in front
SetSystemContent_unshift(msgs, text) == <<Msg("system", text, 0)>> \o msgs

\* '/system <text>' (lines 375-377): the content of the first system message
\* is replaced, or a system message is put in front when there is none
SetSystemContent(msgs, text) ==
    LET idx == {n \in 1..Len(msgs) : msgs[n].role = "system"}
    IN  IF idx # {}
        THEN [msgs EXCEPT ![CHOOSE n \in idx : \A m \in idx : n <= m].content = text]
        ELSE <<Msg("system", text, 0)>> \o msgs

\* '/set systemPrompt <value>' (lines 405-409): the content of the first
\* system message is replaced, if there is one
SetPromptContent(msgs, text) ==
    LET idx == {n \in 1..Len(msgs) : msgs[n].role = "system"}
    IN  IF idx # {}
        THEN [msgs EXCEPT ![CHOOSE n \in idx : \A m \in idx : n <= m].content = text]
        ELSE msgs

\* the JSON saveSession writes (line 106), without its meta part
SessionFile(msgs) == [hasMessages |-> TRUE, messages |-> msgs]

Handlers == 1..MaxLines

\* the process runs its listeners
Alive == proc \in {"running", "closed"}

\* the listeners that run sayGoodbyeAndExit: '/exit' (line 351), 'SIGINT'
\* (line 443) and 'close' (line 444)
ByeKinds == {"exit", "sigint", "close"}

NoResult == [ok |-> TRUE, status |-> 0, errorText |-> <<>>]
NoResponse == [ok |-> FALSE, status |-> 0, body |-> FALSE, text |-> <<>>]

IdleHandler ==
    [kind |-> "none", pc |-> "idle", attempt |-> 0, calls |-> 0, retr |-> 0,
     body |-> <<>>, res |-> NoResponse, r |-> NoResult, delay |-> 0,
     reply |-> <<>>, buffer |-> <<>>, f |-> NewFormatter, out |-> <<>>,
     wire |-> <<>>, frames |-> <<>>, nchunks |-> 0, term |-> FALSE,
     result |-> "none", prompts |-> 0, base |-> <<>>]

\* the statuses the retry policy calls retriable
TransientStatus(status) == status = 429 \/ status >= 500

\* mutant of FailedResponse: the missing body is not tested
FailedResponse_okOnly(res) == ~res.ok

\* line 221: !res.ok || !res.body
FailedResponse(res) == ~res.ok \/ ~res.body

\* mutant of PushReply: the reply of a stream that ends early is dropped
PushReply_never(msgs, reply, h) == msgs

\* mutant of PushReply: an empty reply is pushed too
PushReply_always(msgs, reply, h) == Append(msgs, Msg("assistant", reply, h))

\* line 266: if (reply) messages.push({ role: 'assistant', content: reply })
PushReply(msgs, reply, h) ==
    IF reply # <<>> THEN Append(msgs, Msg("assistant", reply, h)) ELSE msgs

\* mutant of isRetriable: status 500 is not retried
isRetriable_above500(status) == status = 429 \/ status > 500

\* lines 271-274
isRetriable(status) == status = 429 \/ status >= 500

\* mutant of IsFinalAttempt: the last attempt is taken for one more
IsFinalAttempt_late(attempt) == attempt = MAX_RETRIES + 1

\* line 286: attempt === MAX_RETRIES
IsFinalAttempt(attempt) == attempt = MAX_RETRIES

\* line 279: attempt <= MAX_RETRIES
LoopCondition(attempt) == attempt <= MAX_RETRIES

RECURSIVE Pow2(_)
Pow2(n) == IF n = 0 THEN 1 ELSE 2 * Pow2(n - 1)

\* mutant of Delay: the wait grows by BASE_DELAY_MS per attempt
Delay_linear(attempt) == BASE_DELAY_MS * (attempt + 1)

\* line 292
Delay(attempt) == BASE_DELAY_MS * Pow2(attempt)

\* streamChatOnce up to its first await (lines 209-219): the request body is
\* built from the messages of that moment and the request is sent
CallStreamChatOnce(hr, msgs) ==
    [hr EXCEPT !.pc = "fetch", !.calls = @ + 1, !.body = msgs, !.res = NoResponse, !.r = NoResult,
               !.reply = <<>>, !.buffer = <<>>, !.f = NewFormatter,
               !.out = <<>>, !.wire = <<>>, !.frames = <<>>, !.nchunks = 0,
               !.term = FALSE, !.delay = 0]

\* streamChatOnce returned ok: askGPTStreamWithRetry prompts and returns
\* (lines 281-284); sayGoodbyeAndExit goes on to process.exit (lines 302-304)
ReturnOk(hr) ==
    [hr EXCEPT !.pc = "done", !.result = "ok", !.r = NoResult, !.body = <<>>,
               !.res = NoResponse,
               !.prompts = IF hr.kind \in ByeKinds THEN @ ELSE @ + 1]

\* the process once streamChatOnce has returned to a listener of this kind:
\* process.exit(0) at line 304
ProcAfterReturn(kind) == IF kind \in ByeKinds THEN "exited" ELSE proc

\* the text of the farewell request (line 299)
Farewell == <<"F">>

(***************************************************************************)
(* Inputs of the environment.                                              *)
(***************************************************************************)
UserTexts == {<<"h">>}

\* the texts given to '/system' and '/set systemPrompt'
PromptTexts == {<<"T">>}

\* the session files found at the start: a conversation that an earlier run
\* of the program saved, and a file without messages, which line 130
\* provides for
OldSessions ==
    { SessionFile(<<Msg("system", <<"T">>, 0), Msg("user", <<"h">>, 0),
                    Msg("assistant", <<"a">>, 0)>>),
      [hasMessages |-> FALSE, messages |-> <<>>] }

\* the responses fetch resolves with: a stream, a successful status without
\* body, and failures
OkResponse == [ok |-> TRUE, status |-> 200, body |-> TRUE, text |-> <<>>]

FailedResponses ==
    {[ok |-> TRUE, status |-> 200, body |-> FALSE, text |-> <<>>]} \cup
    {[ok |-> FALSE, status |-> s, body |-> TRUE, text |-> <<"e">>] :
        s \in {400, 429, 499, 500, 503}}

DeltaLine(content) == <<DATA, SP, JOpen>> \o content \o <<JClose, NL>>
DoneLine == <<DATA, SP, DONE, NL>>

\* the chunks a response stream is made of: a whole frame, a frame cut inside
\* its payload, its end followed by the terminator and a further frame, the
\* terminator alone, and lines that are no frame
Chunks ==
    { DeltaLine(<<"a">>),
      <<DATA, SP, JOpen, BT>>,
      <<BT, BT, JClose, NL>> \o DoneLine \o DeltaLine(<<"x">>),
      DoneLine,
      <<"x", NL, NL>> }

\* the inputs of the runs with several turns: a whole frame and the terminator;
\* a stream, a retriable failure and a failure that is not
LineChunks == {DeltaLine(<<"a">>), DoneLine}

LineResponses ==
    {OkResponse} \cup {r \in FailedResponses : r.status \in {400, 429}}

\* the lines of the response streams whose every split into chunks is drawn:
\* a content frame, the terminator (with a CR before its newline), an empty
\* line, a line without the data prefix, a frame whose payload is not JSON,
\* and a frame without content delta
WireLines ==
    { <<DATA, SP, JOpen, "a", JClose>>,
      <<DATA, SP, DONE, "\r">>,
      <<>>,
      <<"x">>,
      <<DATA, SP, "a">>,
      <<DATA, SP, JEmpty>> }

\* the piece of text after its last newline
LastPiece(w) == LET ls == split(w, <<>>) IN ls[Len(ls)]

NewLines(w) == Cardinality({n \in 1..Len(w) : w[n] = NL})

\* the texts that may follow the begun line frag when at most k lines, the
\* begun one with them, are still to come: the begun line goes on as one of
\* WireLines, whole or cut anywhere, and a whole line is ended by a newline
RECURSIVE Extensions(_, _)
Extensions(frag, k) ==
    IF k = 0 THEN {<<>>}
    ELSE LET rests == {SubSeq(l, Len(frag) + 1, Len(l)) :
                         l \in {l \in WireLines :
                                  Len(l) >= Len(frag) /\ SubSeq(l, 1, Len(frag)) = frag}}
             after == Extensions(<<>>, k - 1)
         IN  UNION {{SubSeq(r, 1, n) : n \in 0..Len(r)} : r \in rests}
             \cup {r \o <<NL>> \o e : r \in rests, e \in after}

\* the chunks that may follow the wire text w of a stream of up to
\* MaxWireLines lines: every content, cut into chunks in every way
NextChunks(w) ==
    Extensions(LastPiece(w), MaxWireLines - NewLines(w)) \ {<<>>}

(***************************************************************************)
(* The 'line' handler (lines 431-441).                                     *)
(***************************************************************************)
\* line 433: an empty line
LineEmpty ==
    /\ proc = "running"
    /\ nlines < MaxLines
    /\ nlines' = nlines + 1
    /\ hs' = [hs EXCEPT ![nlines + 1] =
                [IdleHandler EXCEPT !.kind = "empty", !.pc = "done", !.prompts = 1]]
    /\ UNCHANGED <<messages, autosave, sysPrompt, sessions, ft, proc>>

\* lines 435-438 with handleCommand('/clear') (lines 352-355)
LineClear ==
    /\ proc = "running"
    /\ nlines < MaxLines
    /\ nlines' = nlines + 1
    /\ messages' = ClearedMessages(messages)
    /\ hs' = [hs EXCEPT ![nlines + 1] =
                [IdleHandler EXCEPT !.kind = "clear", !.pc = "done", !.prompts = 1]]
    /\ UNCHANGED <<autosave, sysPrompt, sessions, ft, proc>>

\* lines 435-438 with handleCommand('/new') (lines 356-359)
LineNew ==
    /\ proc = "running"
    /\ nlines < MaxLines
    /\ nlines' = nlines + 1
    /\ messages' = defaultSystemPrompt
    /\ hs' = [hs EXCEPT ![nlines + 1] =
                [IdleHandler EXCEPT !.kind = "new", !.pc = "done", !.prompts = 1]]
    /\ UNCHANGED <<autosave, sysPrompt, sessions, ft, proc>>

\* lines 435-438 with handleCommand('/system <text>') (lines 372-380)
LineSystem(text) ==
    /\ proc = "running"
    /\ nlines < MaxLines
    /\ nlines' = nlines + 1
    /\ messages' = SetSystemContent(messages, text)
    /\ hs' = [hs EXCEPT ![nlines + 1] =
                [IdleHandler EXCEPT !.kind = "system", !.pc = "done", !.prompts = 1]]
    /\ UNCHANGED <<autosave, sysPrompt, sessions, ft, proc>>

\* lines 435-438 with handleCommand('/set systemPrompt <text>') (lines 393-411)
LineSetSystemPrompt(text) ==
    /\ proc = "running"
    /\ nlines < MaxLines
    /\ nlines' = nlines + 1
    /\ sysPrompt' = text
    /\ messages' = SetPromptContent(messages, text)
    /\ hs' = [hs EXCEPT ![nlines + 1] =
                [IdleHandler EXCEPT !.kind = "set", !.pc = "done", !.prompts = 1]]
    /\ UNCHANGED <<autosave, sessions, ft, proc>>

\* line 436 with handleCommand('/save') (line 360) and saveSession up to its
\* await (lines 103-106): the file holds the messages of this moment
LineSave ==
    /\ proc = "running"
    /\ nlines < MaxLines
    /\ nlines' = nlines + 1
    /\ sessions' = sessions \cup {SessionFile(messages)}
    /\ hs' = [hs EXCEPT ![nlines + 1] =
                [IdleHandler EXCEPT !.kind = "save", !.pc = "save"]]
    /\ UNCHANGED <<messages, autosave, sysPrompt, ft, proc>>

\* line 436 with handleCommand('/load <name>') (lines 368-371) and loadSession
\* up to its first await (line 111)
LineLoad ==
    /\ proc = "running"
    /\ nlines < MaxLines
    /\ nlines' = nlines + 1
    /\ hs' = [hs EXCEPT ![nlines + 1] =
                [IdleHandler EXCEPT !.kind = "load", !.pc = "load"]]
    /\ UNCHANGED <<messages, autosave, sysPrompt, sessions, ft, proc>>

\* line 130: json.messages || defaultSystemPrompt()
LoadedMessages(file) ==
    IF file.hasMessages THEN file.messages ELSE defaultSystemPrompt

\* loadSession has read the chosen file (lines 128-132); line 437
LoadDone(h, file) ==
    /\ Alive
    /\ hs[h].pc = "load"
    /\ messages' = LoadedMessages(file)
    /\ hs' = [hs EXCEPT ![h].pc = "done", ![h].result = "ok", ![h].prompts = @ + 1]
    /\ UNCHANGED <<autosave, sysPrompt, sessions, nlines, ft, proc>>

\* loadSession finds no file to read (lines 112-115, 123-126); line 437
LoadNotFound(h) ==
    /\ Alive
    /\ hs[h].pc = "load"
    /\ hs' = [hs EXCEPT ![h].pc = "done", ![h].result = "failed", ![h].prompts = @ + 1]
    /\ UNCHANGED <<messages, autosave, sysPrompt, sessions, nlines, ft, proc>>

\* line 440 and askGPTStreamWithRetry up to the first await (lines 277-280)
LineText(text) ==
    /\ proc = "running"
    /\ nlines < MaxLines
    /\ nlines' = nlines + 1
    /\ messages' = Append(messages, Msg("user", text, nlines + 1))
    /\ hs' = [hs EXCEPT ![nlines + 1] =
                CallStreamChatOnce([IdleHandler EXCEPT !.kind = "turn", !.base = messages],
                                   messages')]
    /\ UNCHANGED <<autosave, sysPrompt, sessions, ft, proc>>

\* lines 435-438 with handleCommand('/retry'): no case of the switch (lines
\* 350-421) is 'retry', the default branch (lines 422-423) prints
\* 'Unknown command. Use /help.'
LineRetry ==
    /\ proc = "running"
    /\ nlines < MaxLines
    /\ nlines' = nlines + 1
    /\ hs' = [hs EXCEPT ![nlines + 1] =
                [IdleHandler EXCEPT !.kind = "retry", !.pc = "done", !.prompts = 1]]
    /\ UNCHANGED <<messages, autosave, sysPrompt, sessions, ft, proc>>

\* sayGoodbyeAndExit up to its first await (lines 299-302), in the listener
\* numbered nlines + 1
Goodbye(kind) ==
    /\ nlines < MaxLines
    /\ nlines' = nlines + 1
    /\ messages' = Append(messages, Msg("user", Farewell, nlines + 1))
    /\ hs' = [hs EXCEPT ![nlines + 1] =
                CallStreamChatOnce([IdleHandler EXCEPT !.kind = kind, !.base = messages],
                                   messages')]
    /\ UNCHANGED <<autosave, sysPrompt, sessions, ft>>

\* lines 435-436 with handleCommand('/exit') (line 351)
LineExit ==
    /\ proc = "running"
    /\ Goodbye("exit")
    /\ UNCHANGED proc

\* Ctrl-C: the 'SIGINT' listener (line 443)
Sigint ==
    /\ proc = "running"
    /\ Goodbye("sigint")
    /\ UNCHANGED proc

\* the input ends: readline closes and emits 'close' (line 444)
Close ==
    /\ proc = "running"
    /\ Goodbye("close")
    /\ proc' = "closed"

(***************************************************************************)
(* streamChatOnce and askGPTStreamWithRetry, from await to await.          *)
(***************************************************************************)
\* fetch resolves (line 211): lines 221-222 or lines 227-234
FetchResolves(h, res) ==
    /\ Alive
    /\ hs[h].pc = "fetch"
    /\ IF FailedResponse(res)
       THEN hs' = [hs EXCEPT ![h].pc = "text", ![h].res = res]
       ELSE hs' = [hs EXCEPT ![h].pc = "stream", ![h].res = res,
                             ![h].out = <<GptLabel>>]
    /\ UNCHANGED <<messages, autosave, sysPrompt, sessions, nlines, ft, proc>>

\* fetch rejects (line 211, a network error): no try encloses the await, so
\* streamChatOnce rejects, its caller (line 280 or 302) rejects and so does
\* the promise of the listener (lines 431, 443, 444); nothing handles it and
\* Node ends the process
FetchRejects(h) ==
    /\ Alive
    /\ hs[h].pc = "fetch"
    /\ hs' = [hs EXCEPT ![h].pc = "done", ![h].result = "rejected",
                        ![h].body = <<>>]
    /\ proc' = "crashed"
    /\ UNCHANGED <<messages, autosave, sysPrompt, sessions, nlines, ft>>

\* res.text() settles (line 222, '' when it rejects); streamChatOnce returns
\* (line 224) and askGPTStreamWithRetry goes on (lines 285-294), or
\* sayGoodbyeAndExit does (lines 303-304)
TextResolves(h, readOk) ==
    /\ Alive
    /\ hs[h].pc = "text"
    /\ LET r == [ok |-> FALSE, status |-> hs[h].res.status,
                 errorText |-> IF readOk THEN hs[h].res.text ELSE <<>>]
           status == r.status
           retr == IF TransientStatus(status) THEN hs[h].retr + 1 ELSE hs[h].retr
       IN  IF hs[h].kind \in ByeKinds
           THEN /\ hs' = [hs EXCEPT ![h].pc = "done", ![h].result = "failed",
                                    ![h].r = r, ![h].retr = retr, ![h].body = <<>>,
                                    ![h].res = NoResponse]
                /\ proc' = "exited"
           ELSE /\ IF ~isRetriable(status) \/ IsFinalAttempt(hs[h].attempt)
                   THEN hs' = [hs EXCEPT ![h].pc = "done", ![h].result = "failed",
                                         ![h].r = r, ![h].retr = retr, ![h].body = <<>>,
                                         ![h].res = NoResponse, ![h].prompts = @ + 1]
                   ELSE hs' = [hs EXCEPT ![h].pc = "sleep", ![h].r = r, ![h].retr = retr,
                                         ![h].body = <<>>, ![h].res = NoResponse,
                                         ![h].delay = Delay(hs[h].attempt)]
                /\ UNCHANGED proc
    /\ UNCHANGED <<messages, autosave, sysPrompt, sessions, nlines, ft>>

\* the sleep of line 294 is over: attempt++ and the loop test (line 279)
SleepDone(h) ==
    /\ Alive
    /\ hs[h].pc = "sleep"
    /\ LET hr == [hs[h] EXCEPT !.attempt = @ + 1]
       IN  IF LoopCondition(hr.attempt)
           THEN hs' = [hs EXCEPT ![h] = CallStreamChatOnce(hr, messages)]
           ELSE hs' = [hs EXCEPT ![h] = [hr EXCEPT !.pc = "done", !.delay = 0]]
    /\ UNCHANGED <<messages, autosave, sysPrompt, sessions, nlines, ft, proc>>

\* the stream yields a chunk: lines 235-262
ChunkArrives(h, chunk) ==
    /\ Alive
    /\ hs[h].pc = "stream"
    /\ hs[h].nchunks < MaxChunks
    /\ LET lines == split(hs[h].buffer \o chunk, <<>>)
           p == ProcessLines(SubSeq(lines, 1, Len(lines) - 1),
                             hs[h].reply, hs[h].f, hs[h].out)
           hr == [hs[h] EXCEPT !.buffer = PopLast(lines), !.reply = p.reply,
                               !.f = p.f, !.out = p.out, !.term = p.term,
                               !.wire = @ \o chunk, !.nchunks = @ + 1,
                               !.frames = @ \o FramesRead(SubSeq(lines, 1, Len(lines) - 1))]
       IN  IF p.term
           THEN /\ messages' = Append(messages, Msg("assistant", p.reply, h))
                /\ hs' = [hs EXCEPT ![h] =
                            IF autosave
                            THEN [hr EXCEPT !.out = Append(@, BlankLine), !.pc = "save"]
                            ELSE ReturnOk([hr EXCEPT !.out = Append(@, BlankLine)])]
                /\ proc' = IF autosave THEN proc ELSE ProcAfterReturn(hs[h].kind)
                /\ sessions' = IF autosave
                               THEN sessions \cup {SessionFile(messages')}
                               ELSE sessions
           ELSE /\ hs' = [hs EXCEPT ![h] = hr]
                /\ UNCHANGED <<messages, proc, sessions>>
    /\ UNCHANGED <<autosave, sysPrompt, nlines, ft>>

\* the stream fails: the for await of line 234 throws; lines 265-268 are not
\* run and the rejection ends the process as in FetchRejects
StreamFails(h) ==
    /\ Alive
    /\ hs[h].pc = "stream"
    /\ hs' = [hs EXCEPT ![h].pc = "done", ![h].result = "rejected",
                        ![h].res = NoResponse]
    /\ proc' = "crashed"
    /\ UNCHANGED <<messages, autosave, sysPrompt, sessions, nlines, ft>>

\* the stream ends without terminator: lines 265-268
StreamEnds(h) ==
    /\ Alive
    /\ hs[h].pc = "stream"
    /\ messages' = PushReply(messages, hs[h].reply, h)
    /\ hs' = [hs EXCEPT ![h] =
                IF autosave
                THEN [@ EXCEPT !.out = Append(@, BlankLine), !.pc = "save"]
                ELSE ReturnOk([@ EXCEPT !.out = Append(@, BlankLine)])]
    /\ proc' = IF autosave THEN proc ELSE ProcAfterReturn(hs[h].kind)
    /\ sessions' = IF autosave THEN sessions \cup {SessionFile(messages')} ELSE sessions
    /\ UNCHANGED <<autosave, sysPrompt, nlines, ft>>

\* saveSession() is over (line 247 or 267): streamChatOnce returns ok
SaveDone(h) ==
    /\ Alive
    /\ hs[h].pc = "save"
    /\ hs' = [hs EXCEPT ![h] = ReturnOk(@)]
    /\ proc' = ProcAfterReturn(hs[h].kind)
    /\ UNCHANGED <<messages, autosave, sysPrompt, sessions, nlines, ft>>

(***************************************************************************)
(* Specifications.                                                         *)
(***************************************************************************)
Init ==
    /\ sysPrompt = DefaultPromptText
    /\ sessions = {}
    /\ messages = defaultSystemPrompt
    /\ autosave \in BOOLEAN
    /\ hs = [h \in Handlers |-> IdleHandler]
    /\ nlines = 0
    /\ ft = FtIdle
    /\ proc = "running"

Next ==
    \/ LineEmpty
    \/ LineClear
    \/ LineNew
    \/ LineRetry
    \/ LineExit
    \/ Sigint
    \/ Close
    \/ \E h \in Handlers : FetchRejects(h)
    \/ \E h \in Handlers : StreamFails(h)
    \/ \E text \in UserTexts : LineText(text)
    \/ \E h \in Handlers, res \in LineResponses : FetchResolves(h, res)
    \/ \E h \in Handlers : TextResolves(h, TRUE)
    \/ \E h \in Handlers : SleepDone(h)
    \/ \E h \in Handlers, chunk \in LineChunks : ChunkArrives(h, chunk)
    \/ \E h \in Handlers : StreamEnds(h)
    \/ \E h \in Handlers : SaveDone(h)

Spec == Init /\ [][Next]_vars

\* at most one turn, with every response and every kind of chunk; the other
\* lines are empty lines and commands
NoTurnYet == \A h \in Handlers : hs[h].kind # "turn"

NextTurn ==
    \/ LineEmpty
    \/ LineClear
    \/ LineNew
    \/ LineRetry
    \/ \E h \in Handlers : FetchRejects(h)
    \/ \E h \in Handlers : StreamFails(h)
    \/ \E text \in UserTexts : NoTurnYet /\ LineText(text)
    \/ \E h \in Handlers, res \in {OkResponse} \cup FailedResponses : FetchResolves(h, res)
    \/ \E h \in Handlers, readOk \in BOOLEAN : TextResolves(h, readOk)
    \/ \E h \in Handlers : SleepDone(h)
    \/ \E h \in Handlers, chunk \in Chunks : ChunkArrives(h, chunk)
    \/ \E h \in Handlers : StreamEnds(h)
    \/ \E h \in Handlers : SaveDone(h)

SpecTurn == Init /\ [][NextTurn]_vars

\* one turn whose response is a stream, with every content of up to
\* MaxWireLines lines and every way of cutting it into chunks
NextWire ==
    \/ \E text \in UserTexts : NoTurnYet /\ LineText(text)
    \/ \E h \in Handlers : FetchResolves(h, OkResponse)
    \/ \E h \in Handlers : \E chunk \in NextChunks(hs[h].wire) : ChunkArrives(h, chunk)
    \/ \E h \in Handlers : StreamEnds(h)

\* autosave is off: the save changes nothing of what the stream is read into
InitWire == Init /\ ~autosave

SpecWire == InitWire /\ [][NextWire]_vars

\* the commands that touch the system message and the session files, with
\* turns whose response is a stream; session files of earlier runs exist
InitCmd ==
    /\ sysPrompt = DefaultPromptText
    /\ sessions \in SUBSET OldSessions
    /\ messages = defaultSystemPrompt
    /\ autosave \in BOOLEAN
    /\ hs = [h \in Handlers |-> IdleHandler]
    /\ nlines = 0
    /\ ft = FtIdle
    /\ proc = "running"

NextCmd ==
    \/ LineClear
    \/ LineNew
    \/ \E text \in PromptTexts : LineSystem(text)
    \/ \E text \in PromptTexts : LineSetSystemPrompt(text)
    \/ LineSave
    \/ LineLoad
    \/ \E h \in Handlers : \E file \in sessions : LoadDone(h, file)
    \/ \E h \in Handlers : LoadNotFound(h)
    \/ \E text \in UserTexts : LineText(text)
    \/ \E h \in Handlers : FetchResolves(h, OkResponse)
    \/ \E h \in Handlers, chunk \in LineChunks : ChunkArrives(h, chunk)
    \/ \E h \in Handlers : StreamEnds(h)
    \/ \E h \in Handlers : SaveDone(h)

SpecCmd == InitCmd /\ [][NextCmd]_vars

\* the formatter alone
InitFmt ==
    /\ sysPrompt = DefaultPromptText
    /\ sessions = {}
    /\ messages = defaultSystemPrompt
    /\ autosave = FALSE
    /\ hs = [h \in Handlers |-> IdleHandler]
    /\ nlines = 0
    /\ proc = "running"
    /\ ft \in {FtStart(d) : d \in UNION {Splits(t) : t \in Texts(MaxFmtLen)}}
              \cup {FtStart(ExampleDeltas)}

NextFmt == FeedDelta

SpecFmt == InitFmt /\ [][NextFmt]_vars

(***************************************************************************)
(* Claims about the formatter alone (SpecFmt).                             *)
(***************************************************************************)
FedAll == ft.todo = <<>>

\* C1 (as claimed): once every delta of a message has been fed to a fresh
\* formatter, the output without styling equals the output, without styling,
\* of one formatToken call on a fresh formatter with the whole message.
C1_FenceSplitInvariance ==
    FedAll => Strip(ft.out) = Strip(formatToken(NewFormatter, ft.whole).out)

\* the characters a formatToken output shows, by kind of item
Items(out, kinds) == {n \in 1..Len(out) : out[n].k \in kinds}

\* C6 (as claimed): after a formatToken call whose scan came to a position where
\* the rest of the buffer was one or two backticks, these backticks are the
\* pending buffer and the call has emitted none of them; after any other call
\* the pending buffer is empty.
C6_UndecidedPrefixRetained ==
    ft.calls > 0 =>
        /\ ft.f.pending = ft.rest
        /\ ft.rest # <<>> =>
              \A n \in Items(ft.last, {"prose", "code"}) :
                  n > Len(ft.last) - Len(ft.rest) => ft.last[n].t # <<BT>>

RECURSIVE TextOf(_, _)
TextOf(out, kinds) ==
    IF out = <<>> THEN <<>>
    ELSE (IF Head(out).k \in kinds THEN Head(out).t ELSE <<>>) \o TextOf(Tail(out), kinds)

ExampleFed == ft.whole = Concat(ExampleDeltas) /\ ft.calls = Len(ExampleDeltas) /\ FedAll

\* C7 (as claimed): after the three deltas of the worked example the output has
\* exactly one enter banner, tagged python, exactly one exit banner after it,
\* the code-styled text is print(1) and its newline (no character of the
\* language tag among it), and the prose after the exit banner is done on a
\* new line.
C7_WorkedExample ==
    ExampleFed =>
        LET enters == Items(ft.out, {"enter"})
            exits == Items(ft.out, {"exit"})
        IN  /\ Cardinality(enters) = 1
            /\ Cardinality(exits) = 1
            /\ \A e \in enters : ft.out[e].t = <<"p", "y", "t", "h", "o", "n">>
            /\ \A e \in enters, x \in exits : e < x
            /\ TextOf(ft.out, {"code"}) = <<"p", "r", "i", "n", "t", "(", "1", ")", NL>>
            /\ \A x \in exits :
                  TextOf(SubSeq(ft.out, x + 1, Len(ft.out)), {"prose"}) =
                      <<NL, "d", "o", "n", "e">>

(***************************************************************************)
(* Claims about turns (Spec, SpecTurn).                                    *)
(***************************************************************************)
\* a streamChatOnce invocation is in flight
InFlight == {"fetch", "text", "stream", "save"}

\* the lines of a stream content that end with a newline
CompleteLines(w) == LET ls == split(w, <<>>) IN SubSeq(ls, 1, Len(ls) - 1)

\* the deltas of the frames before the first terminator frame
RECURSIVE DeltasBeforeTerminator(_)
DeltasBeforeTerminator(lines) ==
    IF lines = <<>> THEN <<>>
    ELSE LET fr == Frame(Head(lines))
         IN  IF fr.k = "terminator" THEN <<>>
             ELSE (IF fr.k = "delta" THEN <<fr.token>> ELSE <<>>)
                      \o DeltasBeforeTerminator(Tail(lines))

\* the deltas of all frames
RECURSIVE AllDeltas(_)
AllDeltas(lines) ==
    IF lines = <<>> THEN <<>>
    ELSE LET fr == Frame(Head(lines))
         IN  (IF fr.k = "delta" THEN <<fr.token>> ELSE <<>>) \o AllDeltas(Tail(lines))

\* the output of formatToken over deltas, one call each, from formatter state f
RECURSIVE FormatAll(_, _)
FormatAll(deltas, f) ==
    IF deltas = <<>> THEN <<>>
    ELSE LET r == formatToken(f, Head(deltas))
         IN  r.out \o FormatAll(Tail(deltas), r.f)

HasAssistant(msgs) == \E n \in 1..Len(msgs) : msgs[n].role = "assistant"

\* C2: a call never invokes streamChatOnce more than MAX_RETRIES + 1 times, and a
\* call that has ended with every invocation failed with a retriable status has
\* made exactly 4 invocations and has reported the failure.
C2_RetryBound ==
    \A h \in Handlers :
        /\ hs[h].calls <= MAX_RETRIES + 1
        /\ (hs[h].kind = "turn" /\ hs[h].pc = "done" /\ hs[h].retr = hs[h].calls)
              => hs[h].calls = 4 /\ hs[h].result = "failed"

C2_Witness ==
    \E h \in Handlers :
        /\ hs[h].pc = "done" /\ hs[h].retr = hs[h].calls
        /\ hs[h].calls = 4 /\ hs[h].result = "failed"

\* C3 (as claimed, its second half): the history a streamChatOnce invocation of
\* a call has sent holds the user message of that call exactly once.
C3_EveryAttemptSendsUserMessage ==
    \A h \in Handlers :
        hs[h].pc \in InFlight =>
            Cardinality({n \in 1..Len(hs[h].body) :
                            hs[h].body[n].role = "user" /\ hs[h].body[n].id = h}) = 1

\* C5 (as claimed): at most one turn is in progress (a streamChatOnce invocation
\* in flight or a backoff delay running), so a line that arrives during a turn
\* starts no other turn.
C5_TurnExclusivity ==
    Cardinality({h \in Handlers : hs[h].pc \in InFlight \cup {"sleep"}}) <= 1

\* the step in which the stream of h ends without terminator and without error
StreamClosed(h) ==
    /\ hs[h].pc = "stream" /\ hs'[h].pc \in {"save", "done"}
    /\ ~hs'[h].term /\ hs'[h].result # "rejected"

\* C4: when the stream ends without terminator after one or more deltas, that
\* step appends one assistant message, the concatenation of the deltas in order;
\* the attempt then returns ok (after the autosave, if any), with no further
\* streamChatOnce invocation and no failure report, and the call is over.
C4_PartialOutputPreserved ==
    [][\A h \in Handlers :
        LET deltas == DeltasBeforeTerminator(CompleteLines(hs[h].wire))
        IN  /\ (StreamClosed(h) /\ deltas # <<>>) =>
                  /\ messages' = Append(messages, Msg("assistant", Concat(deltas), h))
                  /\ hs'[h].calls = hs[h].calls
                  /\ hs'[h].pc = "done" => hs'[h].result = "ok"
            /\ (hs[h].pc = "save" /\ hs'[h] # hs[h]) =>
                  /\ hs'[h].pc = "done" /\ hs'[h].result = "ok"
                  /\ hs'[h].calls = hs[h].calls
                  /\ messages' = messages
            /\ hs[h].pc = "done" => hs'[h] = hs[h]]_vars

C4_Witness ==
    \E h \in Handlers :
        LET deltas == DeltasBeforeTerminator(CompleteLines(hs[h].wire))
        IN  /\ hs[h].pc = "done" /\ hs[h].result = "ok" /\ ~hs[h].term
            /\ Len(deltas) >= 2
            /\ messages[Len(messages)] = Msg("assistant", Concat(deltas), h)

\* C8: after a failed attempt the call waits for another attempt if and only if
\* the attempt index is below MAX_RETRIES and the status is 429 or at least 500,
\* and the wait is followed by that attempt; otherwise the call ends there with
\* the failure reported, after attempt + 1 invocations.
C8_FailureClassification ==
    [][\A h \in Handlers :
        /\ (hs[h].kind = "turn" /\ hs[h].pc = "text" /\ hs'[h].pc # "text") =>
              LET status == hs[h].res.status
                  attempt == hs[h].attempt
              IN  /\ hs'[h].pc \in {"sleep", "done"}
                  /\ hs'[h].pc = "sleep" <=>
                        (attempt < MAX_RETRIES /\ (status = 429 \/ status >= 500))
                  /\ hs'[h].pc = "done" =>
                        hs'[h].result = "failed" /\ hs'[h].calls = attempt + 1
        /\ (hs[h].pc = "sleep" /\ hs'[h].pc # "sleep") =>
              /\ hs'[h].pc = "fetch"
              /\ hs'[h].attempt = hs[h].attempt + 1
              /\ hs'[h].calls = hs[h].calls + 1]_vars

C8_Witness ==
    \E h \in Handlers :
        /\ hs[h].pc = "done" /\ hs[h].result = "failed" /\ hs[h].calls = 2
        /\ hs[h].r.status = 200

\* C9: the step that reads the terminator appends one assistant message, the
\* concatenation of the deltas of the frames before the terminator; reply and
\* output are those of these deltas alone, whatever follows the terminator in
\* the chunk; the attempt consumes nothing more and returns ok.
C9_TerminatorHandling ==
    [][\A h \in Handlers :
        /\ (~hs[h].term /\ hs'[h].term) =>
              LET ref == DeltasBeforeTerminator(CompleteLines(hs'[h].wire))
              IN  /\ messages' = Append(messages, Msg("assistant", Concat(ref), h))
                  /\ hs'[h].reply = Concat(ref)
                  /\ hs'[h].out = <<GptLabel>> \o FormatAll(ref, NewFormatter) \o <<BlankLine>>
                  /\ hs'[h].pc \in {"save", "done"}
                  /\ hs'[h].pc = "done" => hs'[h].result = "ok"
        /\ (hs[h].term /\ hs'[h] # hs[h]) =>
              /\ hs[h].pc = "save" /\ hs'[h].pc = "done" /\ hs'[h].result = "ok"
              /\ hs'[h].reply = hs[h].reply /\ hs'[h].out = hs[h].out
              /\ hs'[h].wire = hs[h].wire /\ hs'[h].term
              /\ messages' = messages]_vars

C9_Witness ==
    \E h \in Handlers :
        /\ hs[h].term /\ hs[h].pc = "done" /\ hs[h].reply # <<>>
        /\ AllDeltas(CompleteLines(hs[h].wire)) #
               DeltasBeforeTerminator(CompleteLines(hs[h].wire))

\* C10: fetch resolved, the attempt takes the failure path if and only if the
\* response is not ok or has no body; on that path neither step changes the
\* conversation or writes output, and the attempt returns ok = false with the
\* status of the response and its body text ('' when the text cannot be read).
C10_FailedResponseNoAssistant ==
    [][\A h \in Handlers :
        /\ (hs[h].pc = "fetch" /\ hs'[h].pc \in {"text", "stream"}) =>
              /\ hs'[h].pc = "text" <=> (~hs'[h].res.ok \/ ~hs'[h].res.body)
              /\ hs'[h].pc = "text" =>
                    messages' = messages /\ hs'[h].out = <<>> /\ hs'[h].reply = <<>>
        /\ (hs[h].pc = "text" /\ hs'[h].pc # "text") =>
              /\ hs'[h].r.ok = FALSE
              /\ hs'[h].r.status = hs[h].res.status
              /\ hs'[h].r.errorText \in {hs[h].res.text, <<>>}
              /\ messages' = messages /\ hs'[h].out = <<>> /\ hs'[h].reply = <<>>]_vars

C10_Witness ==
    \E h \in Handlers :
        /\ hs[h].pc = "done" /\ hs[h].result = "failed"
        /\ hs[h].r = [ok |-> FALSE, status |-> 200, errorText |-> <<>>]
        /\ ~HasAssistant(messages)


(***************************************************************************)
(* Claims about the line buffer and the frame parser (SpecWire).           *)
(***************************************************************************)
\* a line the frame parser is to pass over: empty once trimmed, without the
\* data prefix, or a data line, other than the terminator, whose payload is
\* no JSON or holds no content delta
Malformed(raw) ==
    LET line == trim(raw)
    IN  \/ line = <<>>
        \/ ~IsDataLine(line)
        \/ /\ ~IsDoneLine(line)
           /\ LET d == ParseToken(SubSeq(line, 3, Len(line)))
              IN  ~d.ok \/ d.token = <<>>

WellFormed(raw) == ~Malformed(raw)

\* C11: at every moment of an attempt that has read chunks, the reply, the
\* formatter state, the output and the terminator flag are those the attempt
\* would have with the malformed lines taken out of the stream: such a line
\* changes none of them, does not end the attempt, and the frames around it
\* are processed as if it were absent.
C11_MalformedFrameTolerance ==
    \A h \in Handlers :
        hs[h].wire # <<>> =>
            LET kept == SelectSeq(CompleteLines(hs[h].wire), WellFormed)
                p == ProcessLines(kept, <<>>, NewFormatter, <<GptLabel>>)
            IN  /\ hs[h].reply = p.reply
                /\ hs[h].f = p.f
                /\ hs[h].term = p.term
                /\ hs[h].out \in {p.out, Append(p.out, BlankLine)}

\* a line with a payload that is no JSON between two content frames, all read
C11_Witness ==
    \E h \in Handlers :
        LET ls == CompleteLines(hs[h].wire)
        IN  /\ Len(ls) = 3
            /\ Frame(ls[1]).k = "delta"
            /\ ls[2] = <<DATA, SP, "a">>
            /\ Frame(ls[3]).k = "delta"
            /\ hs[h].reply = Frame(ls[1]).token \o Frame(ls[3]).token

\* C12: however the stream is cut into chunks, the frames read so far are the
\* frames read when all the text so far arrives as one chunk, and the text
\* kept for the next chunk is the same.
C12_ChunkBoundaryInvariance ==
    \A h \in Handlers :
        hs[h].wire # <<>> =>
            /\ hs[h].frames = FramesRead(CompleteLines(hs[h].wire))
            /\ ~hs[h].term => hs[h].buffer = LastPiece(hs[h].wire)

\* one content frame that came in two chunks or more: a chunk boundary fell
\* inside the line or between the line and its newline
C12_Witness ==
    \E h \in Handlers :
        /\ hs[h].nchunks >= 2
        /\ hs[h].wire = <<DATA, SP, JOpen, "a", JClose, NL>>
        /\ hs[h].frames = <<[k |-> "delta", token |-> <<"a">>]>>

\* C13 (as claimed): when the stream closes while the line buffer holds a
\* content frame without newline, the frame is read as a last line: its delta
\* joins the reply and the reply is appended as assistant message.
C13_LastFragmentFlushed ==
    [][\A h \in Handlers :
          (StreamClosed(h) /\ Frame(hs[h].buffer).k = "delta") =>
              /\ hs'[h].reply = hs[h].reply \o Frame(hs[h].buffer).token
              /\ messages' = Append(messages, Msg("assistant", hs'[h].reply, h))]_vars


(***************************************************************************)
(* The banners of the formatter (SpecFmt).                                 *)
(***************************************************************************)
IsBanner(it) == it.k \in {"enter", "exit"}

\* the kinds of the banners of an output, in order
BannerKinds(out) ==
    LET b == SelectSeq(out, IsBanner) IN [n \in 1..Len(b) |-> b[n].k]

\* enter, exit, enter, ...
Alternating(kinds) ==
    \A n \in 1..Len(kinds) : kinds[n] = IF n % 2 = 1 THEN "enter" ELSE "exit"

\* C16 (as claimed): the banners emitted so far alternate, the first an enter
\* banner; once every delta is fed, there is one enter banner per opening
\* fence of the message and one exit banner per closing fence, as in the scan
\* of the whole message, and the formatter is inside a fence exactly when the
\* last fence of the message is not closed.
C16_BannerPairing ==
    /\ Alternating(BannerKinds(ft.out))
    /\ FedAll =>
          LET ref == formatToken(NewFormatter, ft.whole)
          IN  /\ BannerKinds(ft.out) = BannerKinds(ref.out)
              /\ ft.f.inCode = ref.f.inCode

(***************************************************************************)
(* Claims about errors, shutdown, commands and the backoff.                *)
(***************************************************************************)
\* C14 (as claimed): when the fetch of a turn ends otherwise than with a
\* response, the call classifies the failure: it waits for a retry, or it ends
\* with the failure reported and the prompt issued once more; the process
\* goes on as before.
C14_NetworkErrorSurfaced ==
    [][\A h \in Handlers :
          (/\ hs[h].kind = "turn" /\ hs[h].pc = "fetch"
           /\ hs'[h].pc \notin {"fetch", "text", "stream"}) =>
              /\ proc' = proc
              /\ hs'[h].pc \in {"sleep", "done"}
              /\ hs'[h].pc = "done" =>
                    /\ hs'[h].result = "failed"
                    /\ hs'[h].prompts = hs[h].prompts + 1]_vars

\* C15 (as claimed): when the stream fails with an error after deltas have
\* been accumulated, the accumulated text is appended as assistant message.
C15_PartialOutputOnStreamError ==
    [][\A h \in Handlers :
          (/\ hs[h].pc = "stream" /\ hs[h].reply # <<>>
           /\ hs'[h].pc = "done" /\ hs'[h].result = "rejected") =>
              messages' = Append(messages, Msg("assistant", hs[h].reply, h))]_vars

\* the listeners that ran sayGoodbyeAndExit
Byes == {h \in Handlers : hs[h].kind \in ByeKinds}

\* C17 (as claimed): whatever shutdown triggers arrive, one farewell message at
\* most is appended, one streamChatOnce invocation is made for it, and the
\* process is over once that invocation has returned.
C17_GracefulShutdown ==
    /\ Cardinality(Byes) <= 1
    /\ Cardinality({n \in 1..Len(messages) : messages[n].content = Farewell}) <= 1
    /\ \A h \in Byes :
          /\ hs[h].calls = 1
          /\ hs[h].pc = "done" => ~Alive

\* C18 (as claimed): the line '/retry' after a turn that failed starts a new
\* turn whose request ends with the last user prompt of the conversation.
C18_RetryResendsLastPrompt ==
    [][\A h \in Handlers :
          (/\ hs[h].pc = "idle" /\ hs'[h].kind = "retry"
           /\ \E g \in Handlers : hs[g].kind = "turn" /\ hs[g].result = "failed") =>
              /\ hs'[h].pc = "fetch"
              /\ hs'[h].body # <<>>
              /\ hs'[h].body[Len(hs'[h].body)].role = "user"]_vars

\* C19: a wait begins only after a failed attempt numbered 0, 1 or 2 with status
\* 429 or at least 500, and lasts BASE_DELAY_MS times 1, 2, 4 (2000, 4000,
\* 8000 ms); the end of the wait starts the next attempt, and no attempt after
\* the first starts otherwise; outside a wait no delay is set.
C19_BackoffSchedule ==
    [][\A h \in Handlers :
        /\ (hs[h].pc # "sleep" /\ hs'[h].pc = "sleep") =>
              LET k == hs[h].attempt
                  status == hs[h].res.status
              IN  /\ hs[h].pc = "text"
                  /\ k \in 0..2 /\ (status = 429 \/ status >= 500)
                  /\ hs'[h].attempt = k
                  /\ hs'[h].delay = BASE_DELAY_MS * <<1, 2, 4>>[k + 1]
                  /\ hs'[h].delay = <<2000, 4000, 8000>>[k + 1]
        /\ (hs[h].pc = "sleep" /\ hs'[h] # hs[h]) =>
              hs'[h].pc = "fetch" /\ hs'[h].attempt = hs[h].attempt + 1
        /\ (hs[h].pc # "fetch" /\ hs'[h].pc = "fetch" /\ hs'[h].calls > 1) =>
              hs[h].pc = "sleep"
        /\ hs'[h].pc # "sleep" => hs'[h].delay = 0]_vars

\* the wait before the fourth invocation
C19_Witness ==
    \E h \in Handlers :
        hs[h].pc = "sleep" /\ hs[h].attempt = 2 /\ hs[h].delay = 8000

\* C20 (as claimed): at the step that ends a call in failure, the conversation
\* is the conversation before the call followed by its user message, no
\* assistant message of the call is in it, and the call has prompted once.
C20_TerminalFailureFrame ==
    [][\A h \in Handlers :
          (/\ hs[h].kind = "turn" /\ hs[h].pc # "done"
           /\ hs'[h].pc = "done" /\ hs'[h].result = "failed") =>
              /\ Len(messages') = Len(hs[h].base) + 1
              /\ SubSeq(messages', 1, Len(hs[h].base)) = hs[h].base
              /\ messages'[Len(messages')].role = "user"
              /\ messages'[Len(messages')].id = h
              /\ hs'[h].prompts = 1]_vars


WithRole(msgs, role) == {n \in 1..Len(msgs) : msgs[n].role = role}

\* C22 (as claimed): every assistant message of the conversation has a user
\* message before it, and there are no more assistant messages than user
\* messages.
C22_AssistantAfterUser ==
    /\ \A n \in WithRole(messages, "assistant") :
          \E m \in WithRole(messages, "user") : m < n
    /\ Cardinality(WithRole(messages, "assistant"))
          <= Cardinality(WithRole(messages, "user"))


\* the step of the line '/clear'
ClearStep ==
    nlines' = nlines + 1 /\ hs'[nlines'].kind = "clear"

AtMostOneSystemFirst(msgs) ==
    /\ Cardinality(WithRole(msgs, "system")) <= 1
    /\ \A n \in WithRole(msgs, "system") : n = 1

\* C21: before and after every step the conversation holds at most one system
\* message, and that one first; the step of '/clear' leaves the system message
\* of the conversation and nothing else.
C21_SystemMessageInvariant ==
    [][/\ AtMostOneSystemFirst(messages)
       /\ AtMostOneSystemFirst(messages')
       /\ ClearStep =>
             /\ WithRole(messages, "system") # {}
             /\ messages' = <<messages[1]>>
             /\ messages'[1].role = "system"]_vars

\* the session of an earlier run, saved under another prompt, was loaded and
\* '/clear' left its system message alone
C21_Witness ==
    \E h1, h2 \in Handlers :
        /\ h1 < h2
        /\ hs[h1].kind = "load" /\ hs[h1].result = "ok"
        /\ hs[h2].kind = "clear"
        /\ sysPrompt = DefaultPromptText
        /\ messages = <<Msg("system", <<"T">>, 0)>>

====
